---- MODULE Spec2Model ----
(***************************************************************************)
(* A model of the file-converter repository:                              *)
(*   md_to_docx.py  MarkdownToDocxConverter (convert and its emitters),    *)
(*                  main (the command-line entry point)                    *)
(*   rep_to_txt.py  the project-structure report                           *)
(*                                                                         *)
(* Text is a sequence of one-character strings, so that strip, startswith, *)
(* split and the regular expressions of the source are computed character  *)
(* by character.  Non-ASCII literals of the source are written in ASCII:   *)
(* see TABLE_LABEL, Fence and the tree connectors.                         *)
(***************************************************************************)
EXTENDS Integers, Sequences, FiniteSets, TLC

VARIABLES
    settings,               \* DocumentSettings read by the converter
    file,                   \* the source file named by md_file_path
    doc,                    \* self.doc: the blocks added so far
    heading_counters,       \* self.heading_counters
    table_counter,          \* self.table_counter
    figure_counter,         \* self.figure_counter
    footnote_definitions,   \* convert's local dict, as a sequence of <<key, text>> in insertion order
    lines,                  \* convert's local list of lines
    i,                      \* convert's cursor (0-based, as in the source)
    pc,                     \* where the converter is: idle, loop, flush, returned, raised
    callsLeft,              \* how many more times the caller calls convert on this converter
    docStart,               \* Len(doc) when the running convert call began
    saved,                  \* what doc.save wrote, one entry per completed convert call
    cli,                    \* main(): its position, argv and exit status
    report                  \* rep_to_txt: the input tree or file and the produced result

vars == <<settings, file, doc, heading_counters, table_counter, figure_counter,
          footnote_definitions, lines, i, pc, callsLeft, docStart, saved, cli, report>>

convVars == <<settings, file, doc, heading_counters, table_counter, figure_counter,
              footnote_definitions, lines, i, pc, callsLeft, docStart, saved>>

(***************************************************************************)
(* Bounds of the model.                                                    *)
(***************************************************************************)
MaxLines == 3       \* longest source, in lines, of the general specification
MaxHeadings == 4    \* longest source of the headings-only specification
MaxCalls == 2       \* convert calls on one converter in the reuse specification
MaxEntries == 4     \* most entries below the root of a modelled file system

(***************************************************************************)
(* Text helpers: str methods and the regular expressions of the source.    *)
(***************************************************************************)
Digits == <<"0", "1", "2", "3", "4", "5", "6", "7", "8", "9">>

IsDigit(c) == \E d \in 1..10 : Digits[d] = c

IsSpace(c) == c \in {" ", "\t"}

DigitVal(c) == (CHOOSE d \in 1..10 : Digits[d] = c) - 1

RECURSIVE Str(_)
\* str(n) for n >= 0
Str(n) == IF n < 10 THEN <<Digits[n + 1]>> ELSE Str(n \div 10) \o <<Digits[(n % 10) + 1]>>

RECURSIVE IntOf(_)
\* int(s) for a string of digits
IntOf(s) == IF s = <<>> THEN 0
            ELSE 10 * IntOf(SubSeq(s, 1, Len(s) - 1)) + DigitVal(s[Len(s)])

Drop(s, n) == SubSeq(s, n + 1, Len(s))

RECURSIVE LStrip(_)
LStrip(s) == IF s # <<>> /\ IsSpace(s[1]) THEN LStrip(Tail(s)) ELSE s

RECURSIVE RStrip(_)
RStrip(s) == IF s # <<>> /\ IsSpace(s[Len(s)]) THEN RStrip(SubSeq(s, 1, Len(s) - 1)) ELSE s

Strip(s) == RStrip(LStrip(s))

StartsWith(s, p) == Len(s) >= Len(p) /\ SubSeq(s, 1, Len(p)) = p

Contains(s, c) == \E k \in 1..Len(s) : s[k] = c

RECURSIVE CountLeading(_, _)
\* how many characters at the start of s satisfy the class: "#", "d" (digit) or "s" (space)
CountLeading(s, class) ==
    IF s = <<>> THEN 0
    ELSE LET hit == CASE class = "#" -> s[1] = "#"
                      [] class = "d" -> IsDigit(s[1])
                      [] OTHER -> IsSpace(s[1])
         IN IF hit THEN 1 + CountLeading(Tail(s), class) ELSE 0

RECURSIVE Split(_, _)
\* s.split(c)
Split(s, c) ==
    IF ~Contains(s, c) THEN <<s>>
    ELSE LET k == CHOOSE k \in 1..Len(s) : s[k] = c /\ \A j \in 1..(k - 1) : s[j] # c
         IN <<SubSeq(s, 1, k - 1)>> \o Split(Drop(s, k), c)

RECURSIVE Join(_, _)
\* sep.join(parts)
Join(parts, sep) ==
    IF parts = <<>> THEN <<>>
    ELSE IF Len(parts) = 1 THEN parts[1]
    ELSE parts[1] \o sep \o Join(Tail(parts), sep)

\* re.match(r'^(#{1,6})\s+(.+)', s) on a stripped line: [ok, level, title]
MatchHeading(s) ==
    LET n == CountLeading(s, "#")
        rest == Drop(s, n)
        w == CountLeading(rest, "s")
    IN IF n >= 1 /\ n <= 6 /\ w >= 1 /\ Len(rest) > w
       THEN [ok |-> TRUE, level |-> n, title |-> Drop(rest, w)]
       ELSE [ok |-> FALSE, level |-> 0, title |-> <<>>]

\* re.match(r'^\[\^(\d+)\]:\s*(.+)', s) on a stripped line: [ok, num, text]
MatchFootnoteDef(s) ==
    LET body == Drop(s, 2)
        n == CountLeading(body, "d")
        rest == Drop(body, n)
        after == Drop(rest, 2)
    IN IF StartsWith(s, <<"[", "^">>) /\ n >= 1 /\ StartsWith(rest, <<"]", ":">>)
          /\ after # <<>>
       THEN [ok |-> TRUE, num |-> SubSeq(body, 1, n), text |-> LStrip(after)]
       ELSE [ok |-> FALSE, num |-> <<>>, text |-> <<>>]

\* re.match(r'^[-*+]\s', s)
MatchBullet(s) == Len(s) >= 2 /\ s[1] \in {"-", "*", "+"} /\ IsSpace(s[2])

\* re.match(r'^\d+\.\s', s)
MatchNumbered(s) ==
    LET n == CountLeading(s, "d")
    IN n >= 1 /\ Len(s) >= n + 2 /\ s[n + 1] = "." /\ IsSpace(s[n + 2])

\* re.match(r'^  [-*+]\s', s)
MatchBullet2(s) == StartsWith(s, <<" ", " ">>) /\ MatchBullet(Drop(s, 2))

\* re.match(r'^  \d+\.\s', s)
MatchNumbered2(s) == StartsWith(s, <<" ", " ">>) /\ MatchNumbered(Drop(s, 2))

\* re.sub(r'^\d+\.\s', '', s) for a line that matches
StripNumbered(s) == Drop(s, CountLeading(s, "d") + 2)

ToLower(c) ==
    LET up == <<"A", "B", "C", "D", "E", "F", "G", "H", "I", "J", "K", "L", "M",
                "N", "O", "P", "Q", "R", "S", "T", "U", "V", "W", "X", "Y", "Z">>
        lo == <<"a", "b", "c", "d", "e", "f", "g", "h", "i", "j", "k", "l", "m",
                "n", "o", "p", "q", "r", "s", "t", "u", "v", "w", "x", "y", "z">>
    IN IF \E k \in 1..26 : up[k] = c THEN lo[CHOOSE k \in 1..26 : up[k] = c] ELSE c

Lowered(s) == [k \in 1..Len(s) |-> ToLower(s[k])]

\* the alternatives of the bibliography pattern that can be written in ASCII
BibliographyWords == {<<"b", "i", "b", "l", "i", "o", "g", "r", "a", "p", "h", "y">>,
                      <<"r", "e", "f", "e", "r", "e", "n", "c", "e", "s">>}

\* re.match(r'^#+\s*(...|bibliography|references)', s, re.IGNORECASE)
MatchBibliography(s) ==
    LET n == CountLeading(s, "#")
        rest == LStrip(Drop(s, n))
    IN n >= 1 /\ \E w \in BibliographyWords : StartsWith(Lowered(rest), w)

\* '_' * 50
Underline == [k \in 1..50 |-> "_"]

\* the literal of the caption f-string (Cyrillic in the source), one token here
TABLE_LABEL == <<"Tablitsa ">>

HorizontalRules == {<<"-", "-", "-">>, <<"*", "*", "*">>, <<"_", "_", "_">>}

\* the fence marker of the source is three backquotes; a string of this language
\* cannot hold a backquote, so the character is written "~" throughout
Fence == <<"~", "~", "~">>

At(seq, k) == seq[k + 1]      \* seq[k] of the source, which counts from 0

(***************************************************************************)
(* Blocks of the document (python-docx paragraphs and tables), by what the *)
(* converter sets on them.  text is the string handed to                   *)
(* process_text_formatting or add_run; the split into styled runs is not   *)
(* modelled.                                                               *)
(***************************************************************************)
PageBreak == [kind |-> "PageBreak"]

Heading(level, text) == [kind |-> "Heading", level |-> level, text |-> text]

Paragraph(text) == [kind |-> "Paragraph", text |-> text]

ListItem(list_type, text, level) ==
    [kind |-> "ListItem", list_type |-> list_type, text |-> text, level |-> level]

Caption(text) == [kind |-> "Caption", text |-> text]

TableBlock(headers, rows) == [kind |-> "Table", headers |-> headers, rows |-> rows]

CodeBlock(text) == [kind |-> "CodeBlock", text |-> text]

Quote(text) == [kind |-> "Quote", text |-> text]

Rule == [kind |-> "Rule", text |-> Underline]

Separator == [kind |-> "Separator", text |-> Underline]

Footnote(num, text) == [kind |-> "Footnote", num |-> num, text |-> <<" ">> \o text]

BibHeading == [kind |-> "Heading", level |-> 1, text |-> <<"SPISOK LITERATURY">>]

BibEntry(idx, item) == [kind |-> "Bibliography", text |-> Str(idx) \o <<".", " ">> \o item]

(***************************************************************************)
(* MarkdownToDocxConverter                                                 *)
(***************************************************************************)
ZeroCounters == [l \in 1..6 |-> 0]

\* ResetLower with the loop started one level too deep
ResetLowerFromNext(hc, level) == [l \in 1..6 |-> IF l > level + 1 THEN 0 ELSE hc[l]]

\* the loop that zeroes the counters below the heading's level
ResetLower(hc, level) == [l \in 1..6 |-> IF l > level THEN 0 ELSE hc[l]]

RECURSIVE NonZeroPrefix(_, _)
\* the list numbers: str of every counter > 0 among the first level counters
NonZeroPrefix(hc, level) ==
    IF level = 0 THEN <<>>
    ELSE NonZeroPrefix(hc, level - 1)
         \o (IF hc[level] > 0 THEN <<Str(hc[level])>> ELSE <<>>)

\* the string returned for the counters as updated
RenderNumber(hc, level, st) ==
    IF st.numbering_format = "simple"
    THEN Str(hc[level]) \o <<".", " ">>
    ELSE LET numbers == NonZeroPrefix(hc, level)
         IN IF numbers # <<>> THEN Join(numbers, <<".">>) \o <<".", " ">> ELSE <<>>

\* generate_heading_number: [counters, number]
GenerateHeadingNumber(hc, level, st) ==
    IF ~st.auto_numbering_headings
    THEN [counters |-> hc, number |-> <<>>]
    ELSE LET bumped == [hc EXCEPT ![level] = @ + 1]
             reset == ResetLower(bumped, level)
         IN [counters |-> reset, number |-> RenderNumber(reset, level, st)]

\* one pass of process_list's while loop over line k: what it appends, or "stop"
ClassifyListLine(line) ==
    IF MatchBullet(line) THEN <<ListItem("bullet", Drop(line, 2), 0)>>
    ELSE IF MatchNumbered(line) THEN <<ListItem("number", StripNumbered(line), 0)>>
    ELSE IF MatchBullet2(line) THEN <<ListItem("bullet", Drop(line, 4), 1)>>
    ELSE IF MatchNumbered2(line) THEN <<ListItem("number", StripNumbered(Drop(line, 2)), 1)>>
    ELSE <<>>

RECURSIVE ListScan(_, _, _)
\* process_list's while loop: [i, items]
ListScan(ls, k, items) ==
    IF k >= Len(ls) THEN [i |-> k, items |-> items]
    ELSE LET line == Strip(At(ls, k))
             got == ClassifyListLine(line)
         IN IF got # <<>> THEN ListScan(ls, k + 1, items \o got)
            ELSE IF line = <<>> THEN ListScan(ls, k + 1, items)
            ELSE [i |-> k, items |-> items]

\* ProcessList returning the index of the line that ended the run
ProcessListSkipping(ls, start_idx, d) ==
    LET r == ListScan(ls, start_idx, <<>>)
    IN [i |-> r.i, doc |-> d \o r.items]

\* process_list: [i, doc]
ProcessList(ls, start_idx, d) ==
    LET r == ListScan(ls, start_idx, <<>>)
    IN [i |-> r.i - 1, doc |-> d \o r.items]

RECURSIVE TableScan(_, _, _)
\* process_table's while loop: [i, table_lines]
TableScan(ls, k, table_lines) ==
    IF k >= Len(ls) THEN [i |-> k, table_lines |-> table_lines]
    ELSE LET line == Strip(At(ls, k))
         IN IF Contains(line, "|") THEN TableScan(ls, k + 1, Append(table_lines, line))
            ELSE IF line = <<>> THEN TableScan(ls, k + 1, table_lines)
            ELSE [i |-> k, table_lines |-> table_lines]

\* [cell.strip() for cell in line.split('|')[1:-1]]
Cells(line) ==
    LET parts == Split(line, "|")
        inner == SubSeq(parts, 2, Len(parts) - 1)
    IN [c \in 1..Len(inner) |-> Strip(inner[c])]

\* the table built from the collected lines: header row, then one row per data line
BuildTable(table_lines) ==
    LET headers == Cells(table_lines[1])
        data_lines == IF Len(table_lines) > 2 THEN Drop(table_lines, 2) ELSE <<>>
        row(line) == LET row_data == Cells(line)
                     IN [c \in 1..Len(headers) |->
                            IF c <= Len(row_data) THEN row_data[c] ELSE <<>>]
    IN TableBlock(headers, [r \in 1..Len(data_lines) |-> row(data_lines[r])])

\* ProcessTable with a caption below that does not count the table
ProcessTableBelowUncounted(ls, start_idx, d, tc, st) ==
    LET r == TableScan(ls, start_idx, <<>>)
        above == st.table_caption_position = "above"
        below == st.table_caption_position = "below"
        tc1 == IF above THEN tc + 1 ELSE tc
    IN IF Len(r.table_lines) < 2
       THEN [i |-> start_idx, doc |-> d, table_counter |-> tc]
       ELSE [i |-> r.i - 1,
             doc |-> d \o (IF above THEN <<Caption(TABLE_LABEL \o Str(tc1))>> ELSE <<>>)
                       \o <<BuildTable(r.table_lines)>>
                       \o (IF below THEN <<Caption(TABLE_LABEL \o Str(tc1))>> ELSE <<>>),
             table_counter |-> tc1]

\* ProcessTable returning the index before its start for a table it abandons
ProcessTableStaying(ls, start_idx, d, tc, st) ==
    LET r == TableScan(ls, start_idx, <<>>)
        above == st.table_caption_position = "above"
        below == st.table_caption_position = "below"
        tc1 == IF above THEN tc + 1 ELSE tc
        tc2 == IF below THEN tc1 + 1 ELSE tc1
    IN IF Len(r.table_lines) < 2
       THEN [i |-> start_idx - 1, doc |-> d, table_counter |-> tc]
       ELSE [i |-> r.i - 1,
             doc |-> d \o (IF above THEN <<Caption(TABLE_LABEL \o Str(tc1))>> ELSE <<>>)
                       \o <<BuildTable(r.table_lines)>>
                       \o (IF below THEN <<Caption(TABLE_LABEL \o Str(tc2))>> ELSE <<>>),
             table_counter |-> tc2]

\* process_table: [i, doc, table_counter]
ProcessTable(ls, start_idx, d, tc, st) ==
    LET r == TableScan(ls, start_idx, <<>>)
        above == st.table_caption_position = "above"
        below == st.table_caption_position = "below"
        tc1 == IF above THEN tc + 1 ELSE tc
        tc2 == IF below THEN tc1 + 1 ELSE tc1
    IN IF Len(r.table_lines) < 2
       THEN [i |-> start_idx, doc |-> d, table_counter |-> tc]
       ELSE [i |-> r.i - 1,
             doc |-> d \o (IF above THEN <<Caption(TABLE_LABEL \o Str(tc1))>> ELSE <<>>)
                       \o <<BuildTable(r.table_lines)>>
                       \o (IF below THEN <<Caption(TABLE_LABEL \o Str(tc2))>> ELSE <<>>),
             table_counter |-> tc2]

RECURSIVE CodeScan(_, _, _)
\* process_code_block's while loop: [i, code_lines]
CodeScan(ls, k, code_lines) ==
    IF k >= Len(ls) THEN [i |-> k, code_lines |-> code_lines]
    ELSE IF StartsWith(Strip(At(ls, k)), Fence) THEN [i |-> k, code_lines |-> code_lines]
    ELSE CodeScan(ls, k + 1, Append(code_lines, At(ls, k)))

\* ProcessCodeBlock returning the index before the closing fence
ProcessCodeBlockBeforeFence(ls, start_idx, d) ==
    LET r == CodeScan(ls, start_idx + 1, <<>>)
    IN [i |-> r.i - 1, doc |-> d \o <<CodeBlock(Join(r.code_lines, <<"\n">>))>>]

\* process_code_block: [i, doc]
ProcessCodeBlock(ls, start_idx, d) ==
    LET r == CodeScan(ls, start_idx + 1, <<>>)
    IN [i |-> r.i, doc |-> d \o <<CodeBlock(Join(r.code_lines, <<"\n">>))>>]

RECURSIVE BibScan(_, _, _)
\* process_bibliography's while loop: [i, bib_items]
BibScan(ls, k, bib_items) ==
    IF k >= Len(ls) THEN [i |-> k, bib_items |-> bib_items]
    ELSE LET line == Strip(At(ls, k))
         IN IF MatchNumbered(line) THEN BibScan(ls, k + 1, Append(bib_items, StripNumbered(line)))
            ELSE IF line = <<>> THEN BibScan(ls, k + 1, bib_items)
            ELSE [i |-> k, bib_items |-> bib_items]

\* process_bibliography: [i, doc]
ProcessBibliography(ls, start_idx, d) ==
    LET r == BibScan(ls, start_idx, <<>>)
    IN [i |-> r.i - 1,
        doc |-> IF r.bib_items # <<>>
                THEN d \o <<BibHeading>>
                       \o [n \in 1..Len(r.bib_items) |-> BibEntry(n, r.bib_items[n])]
                ELSE d]

\* footnote_definitions[num] = text on a dict that keeps insertion order
DictSet(fn, num, text) ==
    IF \E k \in 1..Len(fn) : fn[k].num = num
    THEN [k \in 1..Len(fn) |-> IF fn[k].num = num THEN [num |-> num, text |-> text] ELSE fn[k]]
    ELSE Append(fn, [num |-> num, text |-> text])

RECURSIVE InsertByInt(_, _)
\* where a stable sort on int(key) puts key among the keys sorted so far
InsertByInt(sorted, key) ==
    IF sorted = <<>> THEN <<key>>
    ELSE IF IntOf(key) < IntOf(sorted[1]) THEN <<key>> \o sorted
    ELSE <<sorted[1]>> \o InsertByInt(Tail(sorted), key)

RECURSIVE SortKeys(_, _)
SortKeys(keys, sorted) ==
    IF keys = <<>> THEN sorted ELSE SortKeys(Tail(keys), InsertByInt(sorted, keys[1]))

RECURSIVE TextLess(_, _)
\* a < b as Python compares strings
TextLess(a, b) ==
    IF b = <<>> THEN FALSE
    ELSE IF a = <<>> THEN TRUE
    ELSE IF a[1] # b[1] THEN DigitVal(a[1]) < DigitVal(b[1])
    ELSE TextLess(Tail(a), Tail(b))

RECURSIVE InsertByText(_, _)
InsertByText(sorted, key) ==
    IF sorted = <<>> THEN <<key>>
    ELSE IF TextLess(key, sorted[1]) THEN <<key>> \o sorted
    ELSE <<sorted[1]>> \o InsertByText(Tail(sorted), key)

RECURSIVE SortKeysAsText(_, _)
SortKeysAsText(keys, sorted) ==
    IF keys = <<>> THEN sorted
    ELSE SortKeysAsText(Tail(keys), InsertByText(sorted, keys[1]))

\* SortedKeys without key=int: the keys sorted as strings
SortedKeysAsText(fn) == SortKeysAsText([k \in 1..Len(fn) |-> fn[k].num], <<>>)

\* sorted(footnote_definitions.keys(), key=int)
SortedKeys(fn) == SortKeys([k \in 1..Len(fn) |-> fn[k].num], <<>>)

\* footnote_definitions[num]
DictGet(fn, num) == fn[CHOOSE k \in 1..Len(fn) : fn[k].num = num].text

\* the blocks appended after the main loop
FlushFootnotes(fn) ==
    IF fn # <<>>
    THEN LET keys == SortedKeys(fn)
         IN <<Separator>> \o [k \in 1..Len(keys) |-> Footnote(keys[k], DictGet(fn, keys[k]))]
    ELSE <<>>

\* BreakBefore with the break before level 1 as well
BreakBeforeUpTo2(level) == IF level <= 2 THEN <<PageBreak>> ELSE <<>>

\* the page break convert adds before a heading of level 2
BreakBefore(level) == IF level = 2 THEN <<PageBreak>> ELSE <<>>

\* one iteration of convert's while loop at line k: [i, doc, counters, tc, fn]
LoopBody(ls, k, d, hc, tc, fn, st) ==
    LET stripped == Strip(At(ls, k))
        fm == MatchFootnoteDef(stripped)
        hm == MatchHeading(stripped)
        keep == [i |-> k + 1, doc |-> d, counters |-> hc, tc |-> tc, fn |-> fn]
    IN IF stripped = <<>> THEN keep
       ELSE IF fm.ok THEN [keep EXCEPT !.fn = DictSet(fn, fm.num, fm.text)]
       ELSE IF StartsWith(stripped, <<"#">>)
       THEN IF hm.ok
            THEN LET g == GenerateHeadingNumber(hc, hm.level, st)
                 IN [keep EXCEPT
                       !.doc = d \o BreakBefore(hm.level)
                                 \o <<Heading(hm.level, g.number \o hm.title)>>,
                       !.counters = g.counters]
            ELSE keep
       ELSE IF StartsWith(stripped, Fence)
       THEN LET r == ProcessCodeBlock(ls, k, d)
            IN [keep EXCEPT !.i = r.i + 1, !.doc = r.doc]
       ELSE IF Contains(stripped, "|")
       THEN LET r == ProcessTable(ls, k, d, tc, st)
            IN [keep EXCEPT !.i = r.i + 1, !.doc = r.doc, !.tc = r.table_counter]
       ELSE IF MatchBullet(stripped) \/ MatchNumbered(stripped)
       THEN LET r == ProcessList(ls, k, d)
            IN [keep EXCEPT !.i = r.i + 1, !.doc = r.doc]
       ELSE IF MatchBibliography(stripped)
       THEN LET r == ProcessBibliography(ls, k + 1, d)
            IN [keep EXCEPT !.i = r.i + 1, !.doc = r.doc]
       ELSE IF StartsWith(stripped, <<">">>)
       THEN [keep EXCEPT !.doc = Append(d, Quote(IF Len(stripped) >= 2 /\ IsSpace(stripped[2])
                                                  THEN Drop(stripped, 2)
                                                  ELSE Drop(stripped, 1)))]
       ELSE IF stripped \in HorizontalRules
       THEN [keep EXCEPT !.doc = Append(d, Rule)]
       ELSE [keep EXCEPT !.doc = Append(d, Paragraph(stripped))]

\* the encoding parse_markdown_file opens the source with
ReadEncodings == {"utf-8"}

\* parse_markdown_file succeeds
CanRead(f) == f.exists /\ f.decodes \cap ReadEncodings # {}

\* convert up to the start of its loop: the source is read and split into lines
ConvertBegin ==
    /\ pc = "idle"
    /\ callsLeft > 0
    /\ callsLeft' = callsLeft - 1
    /\ IF CanRead(file)
       THEN /\ lines' = file.text
            /\ footnote_definitions' = <<>>
            /\ i' = 0
            /\ docStart' = Len(doc)
            /\ pc' = "loop"
       ELSE /\ pc' = "read_error"
            /\ UNCHANGED <<lines, footnote_definitions, i, docStart>>
    /\ UNCHANGED <<settings, file, doc, heading_counters, table_counter, figure_counter,
                   saved, cli, report>>

\* one iteration of the main loop
Step ==
    /\ pc = "loop"
    /\ i < Len(lines)
    /\ LET r == LoopBody(lines, i, doc, heading_counters, table_counter,
                         footnote_definitions, settings)
       IN /\ i' = r.i
          /\ doc' = r.doc
          /\ heading_counters' = r.counters
          /\ table_counter' = r.tc
          /\ footnote_definitions' = r.fn
    /\ UNCHANGED <<settings, file, figure_counter, lines, pc, callsLeft, docStart, saved,
                   cli, report>>

\* the loop has ended: the footnotes are appended and the document is saved
Finish ==
    /\ pc = "loop"
    /\ i >= Len(lines)
    /\ doc' = doc \o FlushFootnotes(footnote_definitions)
    /\ IF file.writable
       THEN /\ saved' = Append(saved, [source |-> lines, doc |-> doc'])
            /\ pc' = "returned"
       ELSE /\ pc' = "write_error"
            /\ UNCHANGED saved
    /\ UNCHANGED <<settings, file, heading_counters, table_counter, figure_counter,
                   footnote_definitions, lines, i, callsLeft, docStart, cli, report>>

(***************************************************************************)
(* main(): the command-line entry point                                    *)
(***************************************************************************)
\* DocumentSettings(): the fields the emitters branch on, with their defaults
DefaultSettings ==
    [auto_numbering_headings |-> FALSE,
     numbering_format |-> "decimal",
     table_caption_position |-> "above"]

\* the settings convert_md_to_docx of the bot builds
BotSettings == [DefaultSettings EXCEPT !.auto_numbering_headings = TRUE]

NoCli == [pc |-> "off", argc |-> 0, exit_status |-> -1, printed |-> "none"]

NoReport == [pc |-> "off"]

\* the status the interpreter exits with once main() has returned
ExitStatusAfterMain == 0

\* main() up to the call of convert
MainStart ==
    /\ cli.pc = "start"
    /\ IF cli.argc < 2
       THEN /\ cli' = [cli EXCEPT !.pc = "exited", !.printed = "usage",
                                  !.exit_status = ExitStatusAfterMain]
            /\ UNCHANGED <<settings, doc, heading_counters, table_counter, figure_counter,
                           pc, callsLeft>>
       ELSE /\ cli' = [cli EXCEPT !.pc = "converting"]
            /\ settings' = DefaultSettings
            /\ doc' = <<>>
            /\ heading_counters' = ZeroCounters
            /\ table_counter' = 0
            /\ figure_counter' = 0
            /\ pc' = "idle"
            /\ callsLeft' = 1
    /\ UNCHANGED <<file, footnote_definitions, lines, i, docStart, saved, report>>

\* main() after convert has returned or raised: the try/except and the return
MainEnd ==
    /\ cli.pc = "converting"
    /\ pc \in {"returned", "read_error", "write_error"}
    /\ cli' = [cli EXCEPT !.pc = "exited",
                          !.printed = IF pc = "returned" THEN "success" ELSE "failure",
                          !.exit_status = ExitStatusAfterMain]
    /\ UNCHANGED <<convVars, report>>

(***************************************************************************)
(* A caller that keeps its converter and calls convert again.              *)
(***************************************************************************)
CallAgain(files) ==
    /\ pc \in {"returned", "read_error", "write_error"}
    /\ callsLeft > 0
    /\ file' \in files
    /\ pc' = "idle"
    /\ UNCHANGED <<settings, doc, heading_counters, table_counter, figure_counter,
                   footnote_definitions, lines, i, callsLeft, docStart, saved, cli, report>>

(***************************************************************************)
(* rep_to_txt.py: the project-structure report                             *)
(*                                                                         *)
(* A file system is [root, paths, kind]: root is "dir", "file" or          *)
(* "missing"; paths are the entries below the root, each a sequence of     *)
(* names; kind maps a path to "file", "dir" or "denied" (a directory that  *)
(* cannot be listed).  A file is [ext, zeros, readable, decodes, text]:    *)
(* zeros are the offsets (from 0) of its zero bytes.                       *)
(***************************************************************************)
IGNORE_PATTERNS ==
    {".git", ".svn", ".hg", "__pycache__", ".pytest_cache", "node_modules", ".npm", "target",
     "build", "dist", ".idea", ".vscode", ".DS_Store", "Thumbs.db", ".pro.user"}

BINARY_EXTENSIONS ==
    {<<".", "e", "x", "e">>, <<".", "d", "l", "l">>, <<".", "s", "o">>,
     <<".", "d", "y", "l", "i", "b">>, <<".", "z", "i", "p">>, <<".", "t", "a", "r">>,
     <<".", "g", "z">>, <<".", "r", "a", "r">>, <<".", "7", "z">>,
     <<".", "j", "p", "g">>, <<".", "j", "p", "e", "g">>, <<".", "p", "n", "g">>,
     <<".", "g", "i", "f">>, <<".", "b", "m", "p">>, <<".", "i", "c", "o">>,
     <<".", "s", "v", "g">>, <<".", "w", "e", "b", "p">>, <<".", "m", "p", "3">>,
     <<".", "m", "p", "4">>, <<".", "a", "v", "i">>, <<".", "m", "o", "v">>,
     <<".", "m", "k", "v">>, <<".", "w", "m", "v">>, <<".", "f", "l", "v">>,
     <<".", "p", "d", "f">>, <<".", "d", "o", "c">>, <<".", "d", "o", "c", "x">>,
     <<".", "x", "l", "s">>, <<".", "x", "l", "s", "x">>, <<".", "p", "p", "t">>,
     <<".", "p", "p", "t", "x">>, <<".", "b", "i", "n">>, <<".", "d", "a", "t">>,
     <<".", "d", "b">>, <<".", "s", "q", "l", "i", "t", "e">>, <<".", "m", "d", "b">>}

\* the extensions process_single_file writes a URL for
IMAGE_EXTENSIONS ==
    {<<".", "p", "n", "g">>, <<".", "j", "p", "g">>, <<".", "j", "p", "e", "g">>,
     <<".", "g", "i", "f">>, <<".", "s", "v", "g">>, <<".", "i", "c", "o">>}

\* the box-drawing connectors of the source, in ASCII
TEE == "|-- "       \* U+251C U+2500 U+2500 and a space
ELBOW == "L-- "     \* U+2514 U+2500 U+2500 and a space
BAR == "|   "       \* U+2502 and three spaces
BLANK == "    "

ACCESS_DENIED == "[Access Denied]"

\* the number of bytes is_likely_binary reads
CHUNK_SIZE == 8192

\* the names in the order sorted() puts them
NameOrder == <<".git", "a", "b">>

Names == {NameOrder[k] : k \in 1..Len(NameOrder)}

NameRank(x) == CHOOSE k \in 1..Len(NameOrder) : NameOrder[k] = x

\* os.listdir(path): the names of the entries of the directory
ListDir(fs, path) == {x \in Names : Append(path, x) \in fs.paths}

RECURSIVE SortedNames(_)
\* sorted(names)
SortedNames(S) ==
    IF S = {} THEN <<>>
    ELSE LET x == CHOOSE x \in S : \A y \in S : NameRank(x) <= NameRank(y)
         IN <<x>> \o SortedNames(S \ {x})

IsDir(fs, path) == fs.kind[path] \in {"dir", "denied"}

IsFile(fs, path) == fs.kind[path] = "file"

\* all_items: the directories, then the files, each sorted, without the ignored names
AllItems(fs, path) ==
    LET entries == SortedNames(ListDir(fs, path))
        dirs == SelectSeq(entries, LAMBDA e : IsDir(fs, Append(path, e)) /\ e \notin IGNORE_PATTERNS)
        files == SelectSeq(entries, LAMBDA e : IsFile(fs, Append(path, e)) /\ e \notin IGNORE_PATTERNS)
    IN dirs \o files

\* ChildPrefix with the vertical bar kept below a last entry
ChildPrefixAlwaysBar(prefix, is_last_item) == Append(prefix, BAR)

\* current_prefix
EntryPrefix(prefix, is_last_item) == Append(prefix, IF is_last_item THEN ELBOW ELSE TEE)

\* next_prefix
ChildPrefix(prefix, is_last_item) == Append(prefix, IF is_last_item THEN BLANK ELSE BAR)

\* os.listdir(path) raises PermissionError
ListingDenied(fs, path) == path # <<>> /\ fs.kind[path] = "denied"

RECURSIVE ScanItems(_, _, _, _)
RECURSIVE scan_directory(_, _, _)
\* the for loop of scan_directory from item k on
ScanItems(fs, path, prefix, k) ==
    LET all_items == AllItems(fs, path)
        item == all_items[k]
        item_path == Append(path, item)
        is_last_item == (k = Len(all_items))
    IN IF k > Len(all_items) THEN <<>>
       ELSE <<Append(EntryPrefix(prefix, is_last_item), item)>>
            \o (IF IsDir(fs, item_path)
                THEN scan_directory(fs, item_path, ChildPrefix(prefix, is_last_item))
                ELSE <<>>)
            \o ScanItems(fs, path, prefix, k + 1)

\* scan_directory(path, prefix): the lines of the tree, each a prefix and a name
scan_directory(fs, path, prefix) ==
    IF ListingDenied(fs, path)
    THEN <<prefix \o <<ELBOW, ACCESS_DENIED>>>>
    ELSE ScanItems(fs, path, prefix, 1)

\* is_likely_binary with the whole file read
IsLikelyBinaryWholeFile(f) == IF f.readable THEN f.zeros # {} ELSE TRUE

\* is_likely_binary
is_likely_binary(f) ==
    IF f.readable THEN \E z \in f.zeros : z < CHUNK_SIZE ELSE TRUE

\* the order extract_text_content tries the encodings in
encodings_priority == <<"utf-8", "utf-8-sig", "cp1251", "latin1", "cp1252">>

\* f"{i:4}"
Width4(digits) == [k \in 1..(4 - Len(digits)) |-> " "] \o digits

\* extract_text_content
extract_text_content(f) ==
    IF ~f.readable THEN <<<<"ERROR">>>>
    ELSE IF \A k \in 1..Len(encodings_priority) : encodings_priority[k] \notin f.decodes
    THEN <<<<"WARNING">>>>
    ELSE [n \in 1..Len(f.text) |-> Width4(Str(n)) \o <<" ", "|", " ">> \o RStrip(f.text[n])]

Dashes == [k \in 1..80 |-> "-"]

BINARY_PLACEHOLDER == <<"[Binary file - content not displayed]">>

GithubUrl(relative_path) == <<"https://raw.githubusercontent.com/.../">> \o relative_path

\* process_single_file without the URL branch: the placeholder for every binary file
ProcessSingleFilePlaceholderOnly(relative_path, ext, f) ==
    LET file_ext == Lowered(ext)
    IN <<<<"\n">> \o Dashes, Append(relative_path, ":"), Dashes>>
       \o (IF file_ext \in BINARY_EXTENSIONS \/ is_likely_binary(f)
           THEN <<BINARY_PLACEHOLDER>>
           ELSE extract_text_content(f))
       \o <<<<>>>>

\* process_single_file(relative_path, file_path): the lines for one file; the
\* extension is the one os.path.splitext finds in the path
process_single_file(relative_path, ext, f) ==
    LET file_ext == Lowered(ext)
    IN <<<<"\n">> \o Dashes, Append(relative_path, ":"), Dashes>>
       \o (IF file_ext \in BINARY_EXTENSIONS \/ is_likely_binary(f)
           THEN IF file_ext \in IMAGE_EXTENSIONS
                THEN <<GithubUrl(relative_path)>>
                ELSE <<BINARY_PLACEHOLDER>>
           ELSE extract_text_content(f))
       \o <<<<>>>>

\* the text file every file of a modelled tree is
PlainFile ==
    [zeros |-> {}, readable |-> TRUE,
     decodes |-> {"utf-8", "utf-8-sig", "cp1251", "latin1", "cp1252"},
     text |-> <<<<"x">>>>]

\* os.path.relpath(file_path, root_path)
RelPath(path) == Join([k \in 1..Len(path) |-> <<path[k]>>], <<"/">>)

RECURSIVE WalkFiles(_, _, _)
RECURSIVE WalkDirs(_, _, _, _)
RECURSIVE WalkContents(_, _, _)
\* the inner for loop of extract_all_file_contents over the sorted files from k on
WalkFiles(fs, path, k) ==
    LET names == SortedNames({x \in ListDir(fs, path) : IsFile(fs, Append(path, x))})
    IN IF k > Len(names) THEN <<>>
       ELSE (IF names[k] \in IGNORE_PATTERNS THEN <<>>
             ELSE process_single_file(RelPath(Append(path, names[k])), <<>>, PlainFile))
            \o WalkFiles(fs, path, k + 1)

\* os.walk going down into the directories kept in dirs, in the order listed
WalkDirs(fs, path, order, k) ==
    IF k > Len(order) THEN <<>>
    ELSE (IF /\ Append(path, order[k]) \in fs.paths
             /\ IsDir(fs, Append(path, order[k]))
             /\ order[k] \notin IGNORE_PATTERNS
          THEN WalkContents(fs, Append(path, order[k]), order)
          ELSE <<>>)
         \o WalkDirs(fs, path, order, k + 1)

\* extract_all_file_contents below path; order is the order the file system lists
\* names in, which os.walk keeps for the directories
WalkContents(fs, path, order) ==
    IF ListingDenied(fs, path) THEN <<>>
    ELSE WalkFiles(fs, path, 1) \o WalkDirs(fs, path, order, 1)

ROOT_NAME == "root"

\* generate_complete_project_structure: [outcome, text]
generate_complete_project_structure(fs, order) ==
    IF fs.root = "missing"
    THEN [outcome |-> "returned", text |-> <<"Error: Path ", ROOT_NAME, " does not exist">>]
    ELSE IF fs.root = "file"
    THEN [outcome |-> "raised", text |-> <<>>]
    ELSE [outcome |-> "returned",
          text |-> Join(<<<<ROOT_NAME>>>>
                        \o scan_directory(fs, <<>>, <<>>)
                        \o <<<<"\n">>>>
                        \o WalkContents(fs, <<>>, order),
                        <<"\n">>)]

ListOrders == {o \in [1..Len(NameOrder) -> Names] : \A a, b \in DOMAIN o : a # b => o[a] # o[b]}

\* the caller up to the return of generate_complete_project_structure
Generate ==
    /\ report.pc = "start"
    /\ \E order \in ListOrders :
          LET r == generate_complete_project_structure(report.fs, order)
          IN report' = [report EXCEPT !.pc = IF r.outcome = "raised" THEN "raised"
                                             ELSE "generated",
                                      !.text = r.text]
    /\ UNCHANGED <<convVars, cli>>

\* the caller writes what was returned to the report file and reports success
WriteReport ==
    /\ report.pc = "generated"
    /\ report' = [report EXCEPT !.pc = "written", !.written = report.text,
                                !.success = TRUE]
    /\ UNCHANGED <<convVars, cli>>

\* process_single_file applied to one file
ProcessFile ==
    /\ report.pc = "file"
    /\ report' = [report EXCEPT
                    !.pc = "filed",
                    !.out = process_single_file(<<"f">> \o report.ext, report.ext, report.file)]
    /\ UNCHANGED <<convVars, cli>>

(***************************************************************************)
(* Inputs                                                                  *)
(***************************************************************************)
Hashes(n) == [k \in 1..n |-> "#"]

L_blank == <<>>
L_h1 == Hashes(1) \o <<" ", "A">>
L_h2 == Hashes(2) \o <<" ", "B">>
L_h3 == Hashes(3) \o <<" ", "C">>
L_hash == <<"#", "x">>
L_bullet == <<"-", " ", "a">>
L_bullet2 == <<" ", " ", "-", " ", "b">>
L_num == <<"1", ".", " ", "c">>
L_num2 == <<" ", " ", "2", ".", " ", "d">>
L_row == <<"|", "h", "|">>
L_pipe == <<"p", "|", "q">>
L_fence == Fence
L_fn10 == <<"[", "^", "1", "0", "]", ":", " ", "x">>
L_fn2 == <<"[", "^", "2", "]", ":", " ", "y">>
L_text == <<"t">>
L_quote == <<">", " ", "q">>
L_rule == <<"-", "-", "-">>
L_bib == <<"#", " ", "R", "e", "f", "e", "r", "e", "n", "c", "e", "s">>

\* the lines the general specification builds its sources from
LineAlphabet == {L_blank, L_h1, L_h2, L_hash, L_bullet, L_bullet2, L_num, L_num2, L_row,
                 L_fence, L_fn10, L_fn2, L_text, L_quote, L_rule, L_bib}

\* the lines of the headings-only specification: one heading of each level
HeadingAlphabet == {Hashes(n) \o <<" ", "A">> : n \in 1..6}

Sources(alphabet, n) == UNION {[1..k -> alphabet] : k \in 1..n}

AllEncodings == {"utf-8", "utf-8-sig", "cp1251", "latin1", "cp1252"}

\* a readable UTF-8 file holding the given lines, with a writable destination
TextFile(text) ==
    [exists |-> TRUE, decodes |-> AllEncodings, text |-> text, writable |-> TRUE]

\* the converter as constructed, about to be handed the file f
Constructed(st, f, calls) ==
    /\ settings = st
    /\ file = f
    /\ doc = <<>>
    /\ heading_counters = ZeroCounters
    /\ table_counter = 0
    /\ figure_counter = 0
    /\ footnote_definitions = <<>>
    /\ lines = <<>>
    /\ i = 0
    /\ pc = "idle"
    /\ callsLeft = calls
    /\ docStart = 0
    /\ saved = <<>>
    /\ cli = NoCli
    /\ report = NoReport

Init ==
    \E t \in Sources(LineAlphabet, MaxLines) : Constructed(BotSettings, TextFile(t), 1)

Next == ConvertBegin \/ Step \/ Finish

Spec == Init /\ [][Next]_vars

HeadingSettings ==
    {BotSettings, DefaultSettings, [BotSettings EXCEPT !.numbering_format = "simple"]}

InitHeadings ==
    \E t \in Sources(HeadingAlphabet, MaxHeadings), st \in HeadingSettings :
        Constructed(st, TextFile(t), 1)

SpecHeadings == InitHeadings /\ [][Next]_vars

\* the documents a caller that keeps its converter converts
ReuseSources ==
    {<<L_h1>>, <<L_h1, L_h2>>, <<L_row, L_row>>, <<L_fn2, L_text>>, <<L_text>>}

ReuseFiles == {TextFile(t) : t \in ReuseSources}

InitReuse ==
    \E f \in ReuseFiles, st \in {BotSettings, DefaultSettings} : Constructed(st, f, MaxCalls)

NextReuse == Next \/ CallAgain(ReuseFiles)

SpecReuse == InitReuse /\ [][NextReuse]_vars

\* no converter has been constructed
Unbuilt ==
    /\ settings = DefaultSettings
    /\ doc = <<>>
    /\ heading_counters = ZeroCounters
    /\ table_counter = 0
    /\ figure_counter = 0
    /\ footnote_definitions = <<>>
    /\ lines = <<>>
    /\ i = 0
    /\ pc = "unbuilt"
    /\ callsLeft = 0
    /\ docStart = 0
    /\ saved = <<>>

\* how the bytes of a source file decode: valid UTF-8, or only in the one-byte encodings
Decodings == {AllEncodings, {"cp1251", "latin1", "cp1252"}, {"latin1"}}

MainFiles ==
    [exists : BOOLEAN, decodes : Decodings, text : ReuseSources, writable : BOOLEAN]

InitMain ==
    /\ Unbuilt
    /\ file \in MainFiles
    /\ cli \in [pc : {"start"}, argc : 1..3, exit_status : {-1}, printed : {"none"}]
    /\ report = NoReport

NextMain == MainStart \/ ConvertBegin \/ Step \/ Finish \/ MainEnd

SpecMain == InitMain /\ [][NextMain]_vars

RECURSIVE PathSets(_)
\* the sets of at most n paths that hold the parent of every path they hold
PathSets(n) ==
    IF n = 0 THEN {{}}
    ELSE LET prev == PathSets(n - 1)
         IN prev \cup UNION {{P \cup {Append(p, x)} : p \in P \cup {<<>>}, x \in Names} :
                             P \in prev}

\* a directory that holds entries can be listed
FileSystems ==
    UNION {[root : {"dir"}, paths : {P},
            kind : {k \in [P -> {"file", "dir", "denied"}] :
                       \A p \in P : (\E x \in Names : Append(p, x) \in P) => k[p] = "dir"}] :
           P \in PathSets(MaxEntries)}
    \cup [root : {"missing", "file"}, paths : {{}}, kind : {<<>>}]

InitReport ==
    /\ Unbuilt
    /\ file = TextFile(<<L_blank>>)
    /\ cli = NoCli
    /\ report \in [pc : {"start"}, fs : FileSystems, text : {<<>>}, written : {<<>>},
                   success : {FALSE}]

NextReport == Generate \/ WriteReport

SpecReport == InitReport /\ [][NextReport]_vars

\* the longest source of the tables specification: room for two tables and a line
\* between them
MaxTableLines == 5

\* the lines of the tables specification
TableAlphabet == {L_blank, L_row, L_pipe, L_text, L_fence}

\* the converter's settings with the caption above (the default) and below the table
TableSettings == {BotSettings, [BotSettings EXCEPT !.table_caption_position = "below"]}

InitTables ==
    \E t \in Sources(TableAlphabet, MaxTableLines), st \in TableSettings :
        Constructed(st, TextFile(t), 1)

SpecTables == InitTables /\ [][Next]_vars

ZeroOffsets == {0, CHUNK_SIZE - 1, CHUNK_SIZE}

Extensions == {<<>>, <<".", "p", "y">>, <<".", "b", "i", "n">>, <<".", "p", "n", "g">>,
               <<".", "P", "N", "G">>}

Texts == {<<<<"x">>>>, <<<<"x", " ">>, <<"y">>>>}

ReportFiles ==
    [zeros : SUBSET ZeroOffsets, readable : BOOLEAN,
     decodes : Decodings, text : Texts]

InitFile ==
    /\ Unbuilt
    /\ file = TextFile(<<L_blank>>)
    /\ cli = NoCli
    /\ report \in [pc : {"file"}, ext : Extensions, file : ReportFiles, out : {<<>>}]

NextFile == ProcessFile

SpecFile == InitFile /\ [][NextFile]_vars

(***************************************************************************)
(* Properties                                                              *)
(***************************************************************************)
\* the blocks the running (or last) convert call has added
Emitted == Drop(doc, docStart)

\* the step being taken is an iteration of the main loop
InLoop == pc = "loop" /\ i < Len(lines)

\* the blocks the step being taken adds
Added == Drop(doc', Len(doc))

RECURSIVE DottedFrom(_, _, _)
\* every nonzero counter among levels from..level, each followed by a dot
DottedFrom(hc, from, level) ==
    IF from > level THEN <<>>
    ELSE (IF hc[from] # 0 THEN Str(hc[from]) \o <<".">> ELSE <<>>)
         \o DottedFrom(hc, from + 1, level)

\* C1: with auto-numbering on in decimal mode, a step that numbers a level-L heading
\* adds one to counter L, leaves every counter above L at zero, and the heading's text
\* is the dot-joined nonzero counters of levels 1..L, then ". ", then the title.
C1_DecimalNumbering ==
    [][(/\ InLoop
        /\ settings.auto_numbering_headings
        /\ settings.numbering_format = "decimal"
        /\ Added # <<>>
        /\ Added[Len(Added)].kind = "Heading")
       => LET h == Added[Len(Added)]
              L == h.level
              title == Drop(Strip(At(lines, i)), L + 1)
          IN /\ L = CountLeading(Strip(At(lines, i)), "#")
             /\ heading_counters'[L] = heading_counters[L] + 1
             /\ \A l \in (L + 1)..6 : heading_counters'[l] = 0
             /\ h.text = DottedFrom(heading_counters', 1, L) \o <<" ">> \o title]_vars

\* C1 witness: headings of levels 1,2,2,1 were numbered 1., 1.1., 1.2., 2. and the
\* last one zeroed counter 2.
C1_Witness ==
    /\ pc = "returned"
    /\ settings = BotSettings
    /\ Len(doc) = 6
    /\ doc[5].kind = "Heading" /\ doc[5].text = <<"1", ".", "2", ".", " ", "A">>
    /\ doc[6].kind = "Heading" /\ doc[6].text = <<"2", ".", " ", "A">>
    /\ heading_counters = [ZeroCounters EXCEPT ![1] = 2]

\* C2 as claimed: every convert call starts from an empty document and zeroed counters,
\* and two calls on the same source save the same document.
C2_AsClaimed ==
    /\ (pc = "loop" /\ i = 0) =>
          /\ doc = <<>>
          /\ heading_counters = ZeroCounters
          /\ table_counter = 0
          /\ figure_counter = 0
    /\ \A a, b \in 1..Len(saved) :
          saved[a].source = saved[b].source => saved[a].doc = saved[b].doc

\* the stripped line at the cursor is handed to the table rule
AtTableRule ==
    LET stripped == Strip(At(lines, i))
    IN /\ InLoop
       /\ Contains(stripped, "|")
       /\ ~MatchFootnoteDef(stripped).ok
       /\ ~StartsWith(stripped, <<"#">>)
       /\ ~StartsWith(stripped, Fence)

\* how many lines from the cursor on, up to the first non-blank line without a pipe,
\* hold a pipe
PipeRun ==
    LET stop == IF \E k \in (i + 1)..Len(lines) :
                      Strip(lines[k]) # <<>> /\ ~Contains(lines[k], "|")
                THEN CHOOSE k \in (i + 1)..Len(lines) :
                      /\ Strip(lines[k]) # <<>> /\ ~Contains(lines[k], "|")
                      /\ \A j \in (i + 1)..(k - 1) :
                            Strip(lines[j]) = <<>> \/ Contains(lines[j], "|")
                ELSE Len(lines) + 1
    IN Cardinality({k \in (i + 1)..(stop - 1) : Contains(lines[k], "|")})

\* C3 as claimed: when the table rule collects fewer than 2 pipe lines, no table and no
\* caption are added, the table counter is unchanged, and the line is added as a
\* paragraph.
C3_AsClaimed ==
    [][(AtTableRule /\ PipeRun < 2)
       => /\ table_counter' = table_counter
          /\ doc' = Append(doc, Paragraph(Strip(At(lines, i))))]_vars

\* the lines of the source from the cursor up to the new cursor that are not blank
RunLines == SelectSeq(SubSeq(lines, i + 1, i'), LAMBDA l : Strip(l) # <<>>)

\* a bullet or numbered line prefixed by exactly two spaces
TwoSpacePrefixed(l) ==
    /\ Len(l) > 2
    /\ l[1] = " " /\ l[2] = " " /\ l[3] # " "
    /\ (MatchBullet(Drop(l, 2)) \/ MatchNumbered(Drop(l, 2)))

\* C4 as claimed: in the list run a step emits, the item of a line prefixed by exactly
\* two spaces has nesting level 1 and the item of an unprefixed line has level 0.
C4_AsClaimed ==
    [][(InLoop /\ Added # <<>> /\ Added[1].kind = "ListItem")
       => /\ Len(Added) = Len(RunLines)
          /\ \A k \in 1..Len(Added) :
                /\ Added[k].kind = "ListItem"
                /\ TwoSpacePrefixed(RunLines[k]) => Added[k].level = 1
                /\ (MatchBullet(RunLines[k]) \/ MatchNumbered(RunLines[k]))
                      => Added[k].level = 0]_vars

\* the positions of the footnote blocks among the emitted blocks
FootnoteAt == {k \in 1..Len(Emitted) : Emitted[k].kind = "Footnote"}

CollectedKeys == {footnote_definitions[k].num : k \in 1..Len(footnote_definitions)}

\* C5: while the body is emitted no footnote or separator block is, and no paragraph
\* ever holds a footnote definition; once the pass is
\* over, the emitted blocks end with one footnote block per distinct collected key, in
\* ascending numeric order of the key, preceded by the only separator; with nothing
\* collected there is no separator and no footnote block.
C5_FootnotesFlushedSorted ==
    LET n == Cardinality(CollectedKeys)
        len == Len(Emitted)
    IN /\ pc = "loop" =>
             \A k \in 1..len : Emitted[k].kind \notin {"Footnote", "Separator"}
       /\ \A k \in 1..len :
             Emitted[k].kind = "Paragraph" => ~MatchFootnoteDef(Emitted[k].text).ok
       /\ pc \in {"returned", "write_error"} =>
             /\ FootnoteAt = (len - n + 1)..len
             /\ {Emitted[k].num : k \in FootnoteAt} = CollectedKeys
             /\ \A a, b \in FootnoteAt :
                   a < b => /\ IntOf(Emitted[a].num) <= IntOf(Emitted[b].num)
                            /\ Emitted[a].num # Emitted[b].num
             /\ {k \in 1..len : Emitted[k].kind = "Separator"}
                   = IF n > 0 THEN {len - n} ELSE {}

\* C5 witness: [^10] was defined before [^2], and footnote 2 was emitted before
\* footnote 10, after the body and the separator.
C5_Witness ==
    /\ pc = "returned"
    /\ Len(footnote_definitions) = 2
    /\ footnote_definitions[1].num = <<"1", "0">>
    /\ Len(doc) = 4
    /\ doc[1].kind = "Paragraph"
    /\ doc[2].kind = "Separator"
    /\ doc[3].kind = "Footnote" /\ doc[3].num = <<"2">>
    /\ doc[4].kind = "Footnote" /\ doc[4].num = <<"1", "0">>

\* C6 as claimed: convert fails with a read error only when the source exists and
\* none of UTF-8, UTF-8 with BOM, cp1251, latin1, cp1252 decodes it (or it cannot be
\* opened at all).
C6_AsClaimed ==
    pc = "read_error" => (~file.exists \/ file.decodes \cap AllEncodings = {})

\* C7 as claimed: for a root that does not exist the function does not return a text,
\* so no report is written and no success reported.
C7_AsClaimed ==
    (report.pc \in {"generated", "raised", "written"} /\ report.fs.root = "missing")
        => report.pc = "raised"

\* C8 as claimed: once main has run a conversion, the exit status is 0 exactly when
\* convert returned, and non-zero when it raised.
C8_AsClaimed ==
    (cli.pc = "exited" /\ cli.printed # "usage")
        => (cli.exit_status = 0 <=> pc = "returned")

\* an entry the tree shows: no name on its path is ignored, and every directory above
\* it can be listed
Shown(fs, p) ==
    /\ p \in fs.paths
    /\ \A k \in 1..Len(p) : p[k] \notin IGNORE_PATTERNS
    /\ \A k \in 1..(Len(p) - 1) : fs.kind[SubSeq(p, 1, k)] = "dir"

\* sibling q is listed after p: directories come before files, names ascend
ListedAfter(fs, p, q) ==
    \/ IsDir(fs, p) /\ IsFile(fs, q)
    \/ /\ IsDir(fs, p) = IsDir(fs, q)
       /\ NameRank(p[Len(p)]) < NameRank(q[Len(q)])

\* p is the last entry listed in its directory
LastListed(fs, p) ==
    ~\E x \in Names :
        LET q == Append(SubSeq(p, 1, Len(p) - 1), x)
        IN q # p /\ Shown(fs, q) /\ ListedAfter(fs, p, q)

\* the prefix the entries of directory p inherit: per level four spaces below a last
\* entry, a bar and three spaces below any other
Inherited(fs, p) ==
    [k \in 1..Len(p) |-> IF LastListed(fs, SubSeq(p, 1, k)) THEN BLANK ELSE BAR]

\* the line of entry p as the claim describes it
ClaimedLine(fs, p) ==
    Inherited(fs, SubSeq(p, 1, Len(p) - 1))
        \o <<IF LastListed(fs, p) THEN ELBOW ELSE TEE, p[Len(p)]>>

\* the lines of the tree section of the returned text
TreeLines(n) == SubSeq(Split(report.text, "\n"), 2, n + 1)

\* C9: the tree section of the report of an existing root holds, for every shown
\* entry, one line made of the prefix inherited from the directories above it (four
\* spaces below a last entry, bar and three spaces below another), then the corner
\* connector if it is the last entry listed in its directory and the tee connector
\* otherwise, then its name; a directory that cannot be listed has the single last
\* entry [Access Denied].
C9_TreePrefixes ==
    (report.pc \in {"generated", "written"} /\ report.fs.root = "dir") =>
        LET fs == report.fs
            shown == {p \in fs.paths : Shown(fs, p)}
            denied == {p \in shown : fs.kind[p] = "denied"}
            n == Cardinality(shown) + Cardinality(denied)
            got == TreeLines(n)
        IN /\ Split(report.text, "\n")[1] = <<ROOT_NAME>>
           /\ Split(report.text, "\n")[n + 2] = <<>>
           /\ {got[k] : k \in 1..n}
                 = {ClaimedLine(fs, p) : p \in shown}
                   \cup {Inherited(fs, p) \o <<ELBOW, ACCESS_DENIED>> : p \in denied}
           /\ \A a, b \in 1..n : a # b => got[a] # got[b]

\* C9 witness: a is a directory listed before the file b; a holds the directory b as
\* its only entry, which holds the file a: the lines carry tee, bar + corner,
\* bar + blank + corner, corner.
C9_Witness ==
    /\ report.pc = "generated"
    /\ report.fs.root = "dir"
    /\ report.fs.paths = {<<"a">>, <<"b">>, <<"a", "b">>, <<"a", "b", "a">>}
    /\ report.fs.kind[<<"b">>] = "file"
    /\ TreeLines(4) = <<<<TEE, "a">>, <<BAR, ELBOW, "b">>, <<BAR, BLANK, ELBOW, "a">>,
                        <<ELBOW, "b">>>>

\* the lines process_single_file wrote between the header and the closing empty line
Body == SubSeq(report.out, 4, Len(report.out) - 1)

\* the file's text, line by line, each with its number right-aligned in four columns
NumberedDump(text) ==
    [n \in 1..Len(text) |->
        (IF n < 10 THEN <<" ", " ", " ">> ELSE <<" ", " ">>) \o Str(n)
        \o <<" ", "|", " ">> \o RStrip(text[n])]

ZeroInFirstChunk(f) == \E z \in f.zeros : z >= 0 /\ z <= CHUNK_SIZE - 1

\* C10 as claimed: a file with a zero byte in its first 8192 bytes is not dumped as
\* text whatever its extension; a file with a non-binary extension and no zero byte
\* in its first 8192 bytes is dumped as text.
C10_AsClaimed ==
    report.pc = "filed" =>
        /\ ZeroInFirstChunk(report.file) => Body # NumberedDump(report.file.text)
        /\ (Lowered(report.ext) \notin BINARY_EXTENSIONS /\ ~ZeroInFirstChunk(report.file))
              => Body = NumberedDump(report.file.text)

\* C10, amended: as claimed for a file that can be opened; a file that cannot be opened
\* is not dumped as text either.
C10_BinaryDetection ==
    report.pc = "filed" =>
        /\ (ZeroInFirstChunk(report.file) \/ ~report.file.readable)
              => Body \in {<<BINARY_PLACEHOLDER>>, <<GithubUrl(<<"f">> \o report.ext)>>}
        /\ (/\ report.file.readable
            /\ Lowered(report.ext) \notin BINARY_EXTENSIONS
            /\ ~ZeroInFirstChunk(report.file))
              => Body = NumberedDump(report.file.text)

\* C10 witness: a readable file without extension whose only zero byte is the last
\* byte of the first 8192 got the placeholder.
C10_Witness ==
    /\ report.pc = "filed"
    /\ report.ext = <<>>
    /\ report.file.readable
    /\ report.file.zeros = {CHUNK_SIZE - 1}
    /\ Body = <<BINARY_PLACEHOLDER>>

\* the stripped line at the cursor is handed to the list rule
AtListRule ==
    LET stripped == Strip(At(lines, i))
    IN /\ InLoop
       /\ MatchBullet(stripped) \/ MatchNumbered(stripped)
       /\ ~MatchFootnoteDef(stripped).ok
       /\ ~StartsWith(stripped, <<"#">>)
       /\ ~StartsWith(stripped, Fence)
       /\ ~Contains(stripped, "|")

\* a bullet or numbered line, indented or not
IsListLine(l) == MatchBullet(Strip(l)) \/ MatchNumbered(Strip(l))

\* the position (from 1) of the first non-blank line after the cursor that is not a
\* list line, or one past the last line
ListRunEnd ==
    LET ends == {k \in (i + 1)..Len(lines) : Strip(lines[k]) # <<>> /\ ~IsListLine(lines[k])}
    IN IF ends = {} THEN Len(lines) + 1 ELSE CHOOSE k \in ends : \A j \in ends : k <= j

\* C11: a step of the list rule adds one list item per list line from the cursor up to
\* the first non-blank line that is not a list line, blank lines in between adding
\* nothing and not ending the run, and it leaves the cursor on that ending line, so the
\* next iteration of the main loop classifies it.
C11_BlankLinesKeepListRun ==
    [][AtListRule
       => LET run == SelectSeq(SubSeq(lines, i + 1, ListRunEnd - 1), IsListLine)
          IN /\ Len(Added) = Len(run)
             /\ \A k \in 1..Len(run) :
                   LET s == Strip(run[k])
                   IN /\ Added[k].kind = "ListItem"
                      /\ Added[k].text = IF MatchBullet(s) THEN Drop(s, 2)
                                         ELSE StripNumbered(s)
             /\ i' = ListRunEnd - 1
             /\ pc' = "loop"]_vars

\* C11 witness: a bullet, a blank line and a text line gave one list item and then the
\* paragraph of the text line.
C11_Witness ==
    /\ pc = "returned"
    /\ lines = <<L_bullet, L_blank, L_text>>
    /\ Emitted = <<ListItem("bullet", <<"a">>, 0), Paragraph(<<"t">>)>>

\* the line at the cursor is a heading whose title starts with one of the bibliography
\* words, and the line after it is a numbered line
AtBibliographyHeading ==
    /\ InLoop
    /\ MatchHeading(Strip(At(lines, i))).ok
    /\ MatchBibliography(Strip(At(lines, i)))
    /\ i + 1 < Len(lines)
    /\ MatchNumbered(Strip(At(lines, i + 1)))

\* C12 as claimed: the step on a bibliography heading hands the numbered lines after it
\* to the bibliography emitter: the first of them is added as bibliography entry 1 and
\* the cursor moves past it, so that the list rule never sees it.
C12_AsClaimed ==
    [][AtBibliographyHeading
       => /\ \E b \in 1..Len(Added) :
                Added[b] = BibEntry(1, StripNumbered(Strip(At(lines, i + 1))))
          /\ i' > i + 1]_vars

\* the stripped line at the cursor is none of: blank, a footnote definition, a heading,
\* a code fence, a line with a pipe, a list line, a quote, a horizontal rule
AtOtherLine ==
    LET stripped == Strip(At(lines, i))
    IN /\ InLoop
       /\ stripped # <<>>
       /\ ~MatchFootnoteDef(stripped).ok
       /\ ~MatchHeading(stripped).ok
       /\ ~StartsWith(stripped, Fence)
       /\ ~Contains(stripped, "|")
       /\ ~(MatchBullet(stripped) \/ MatchNumbered(stripped))
       /\ ~StartsWith(stripped, <<">">>)
       /\ stripped \notin HorizontalRules

\* C13 as claimed: a step on such a line, a line that starts with '#' without having
\* the heading form included, adds exactly one paragraph holding the stripped line and
\* moves the cursor to the next line.
C13_AsClaimed ==
    [][AtOtherLine
       => /\ doc' = Append(doc, Paragraph(Strip(At(lines, i))))
          /\ i' = i + 1]_vars

\* the positions of the tables in the document
TablePositions == {k \in 1..Len(doc) : doc[k].kind = "Table"}

\* C14: in every state the table counter equals the number of tables in the document,
\* and the n-th table has the caption numbered n next to it: right before it when the
\* caption position is "above", right after it when it is "below".
C14_TableCounterCountsTables ==
    /\ table_counter = Cardinality(TablePositions)
    /\ \A k \in TablePositions :
          LET n == Cardinality({j \in TablePositions : j <= k})
              c == IF settings.table_caption_position = "above" THEN k - 1 ELSE k + 1
          IN /\ c \in 1..Len(doc)
             /\ doc[c] = Caption(TABLE_LABEL \o Str(n))

\* C14 witness: with the caption below, two tables with a text line between them were
\* emitted, the second one captioned 2.
C14_Witness ==
    /\ pc = "returned"
    /\ settings.table_caption_position = "below"
    /\ table_counter = 2
    /\ Len(doc) = 5
    /\ doc[4].kind = "Table"
    /\ doc[5] = Caption(TABLE_LABEL \o <<"2">>)

\* the position (from 1) of the first fence line after the line at the cursor, or one
\* past the last line
ClosingFence ==
    LET fences == {k \in (i + 2)..Len(lines) : StartsWith(Strip(lines[k]), Fence)}
    IN IF fences = {} THEN Len(lines) + 1 ELSE CHOOSE k \in fences : \A j \in fences : k <= j

\* C15: a step on a line that begins with a fence adds exactly one code block holding
\* the lines between that line and the next fence line (or the end of the source),
\* unstripped and joined by newlines; it changes no heading counter, footnote entry or
\* table counter, and it leaves the cursor on the line after the closing fence.
C15_CodeBlockCapture ==
    [][(InLoop /\ StartsWith(Strip(At(lines, i)), Fence))
       => /\ Added = <<CodeBlock(Join(SubSeq(lines, i + 2, ClosingFence - 1), <<"\n">>))>>
          /\ i' = ClosingFence
          /\ UNCHANGED <<heading_counters, footnote_definitions, table_counter>>]_vars

\* C15 witness: a heading line between two fences came out as the text of one code
\* block and was not numbered as a heading.
C15_Witness ==
    /\ pc = "returned"
    /\ lines = <<L_fence, L_h1, L_fence>>
    /\ Emitted = <<CodeBlock(L_h1)>>
    /\ heading_counters = ZeroCounters

\* C16: in every state of the document, a block is a page break exactly when the block
\* right after it is a level-2 heading, and every level-2 heading has a page break right
\* before it; so there are as many page breaks as level-2 headings.
C16_PageBreakBeforeLevel2 ==
    /\ \A k \in 1..Len(doc) :
          doc[k].kind = "PageBreak"
             <=> (k < Len(doc) /\ doc[k + 1].kind = "Heading" /\ doc[k + 1].level = 2)
    /\ \A k \in 1..Len(doc) :
          (doc[k].kind = "Heading" /\ doc[k].level = 2) => (k > 1 /\ doc[k - 1] = PageBreak)
    /\ Cardinality({k \in 1..Len(doc) : doc[k].kind = "PageBreak"})
          = Cardinality({k \in 1..Len(doc) : doc[k].kind = "Heading" /\ doc[k].level = 2})

\* C16 witness: headings of levels 2, 1, 3, 2 came out as break, heading, heading,
\* heading, break, heading.
C16_Witness ==
    /\ pc = "returned"
    /\ Len(doc) = 6
    /\ [k \in 1..6 |-> doc[k].kind]
          = <<"PageBreak", "Heading", "Heading", "Heading", "PageBreak", "Heading">>
    /\ doc[2].level = 2 /\ doc[3].level = 1 /\ doc[4].level = 3 /\ doc[6].level = 2

\* the path header process_single_file starts with: a rule after an empty line, the
\* path and a colon, a rule
PathHeader == <<<<"\n">> \o [k \in 1..80 |-> "-"], <<"f">> \o report.ext \o <<":">>,
                [k \in 1..80 |-> "-"]>>

\* the file's extension, lower-cased, is one of the binary extensions
HasBinaryExtension == Lowered(report.ext) \in BINARY_EXTENSIONS

\* C17 as claimed: the lines of a file start with its path header; after it comes the
\* placeholder line alone when the extension is binary or the first 8192 bytes hold a
\* zero byte, and the numbered dump of the text for every other file.
C17_AsClaimed ==
    report.pc = "filed" =>
        /\ SubSeq(report.out, 1, 3) = PathHeader
        /\ IF HasBinaryExtension \/ ZeroInFirstChunk(report.file)
           THEN Body = <<BINARY_PLACEHOLDER>>
           ELSE Body = NumberedDump(report.file.text)

\* C17, amended: a file counts as binary when its extension is binary, when its first
\* 8192 bytes hold a zero byte, or when it cannot be opened; after the path header a
\* binary file gets one line, the raw URL of its path when its extension is one of
\* .png .jpg .jpeg .gif .svg .ico and the placeholder otherwise; every other file gets
\* the numbered dump of its text.
C17_FileRendering ==
    report.pc = "filed" =>
        /\ SubSeq(report.out, 1, 3) = PathHeader
        /\ IF HasBinaryExtension \/ ZeroInFirstChunk(report.file) \/ ~report.file.readable
           THEN Body = IF Lowered(report.ext) \in IMAGE_EXTENSIONS
                       THEN <<GithubUrl(<<"f">> \o report.ext)>>
                       ELSE <<BINARY_PLACEHOLDER>>
           ELSE Body = NumberedDump(report.file.text)

\* C17 witness: a readable .png file without zero bytes got the URL of its path after
\* its header.
C17_Witness ==
    /\ report.pc = "filed"
    /\ report.ext = <<".", "p", "n", "g">>
    /\ report.file.readable
    /\ report.file.zeros = {}
    /\ report.out = PathHeader \o <<GithubUrl(<<"f", ".", "p", "n", "g">>), <<>>>>

\* what the iteration of the main loop at the cursor would leave the cursor at
NextCursor == LoopBody(lines, i, doc, heading_counters, table_counter, footnote_definitions,
                       settings).i

\* C18: the main pass ends after at most Len(lines) iterations. In every state of the
\* loop the iteration about to run leaves the cursor beyond where it is, each of the
\* three multi-line emitters started at the cursor returns an index not smaller than
\* the cursor, and the cursor never exceeds Len(lines) + 1; every iteration taken moves
\* the cursor forward; and with the cursor at Len(lines) or beyond, the only step left
\* ends convert.
C18_MainPassTerminates ==
    /\ [](InLoop => /\ NextCursor > i
                    /\ AtListRule => ProcessList(lines, i, doc).i >= i
                    /\ AtTableRule => ProcessTable(lines, i, doc, table_counter, settings).i >= i
                    /\ StartsWith(Strip(At(lines, i)), Fence)
                          => ProcessCodeBlock(lines, i, doc).i >= i)
    /\ [](pc = "loop" => i <= Len(lines) + 1)
    /\ [][InLoop => (i' > i /\ pc' = "loop")]_vars
    /\ [][(pc = "loop" /\ ~InLoop) => pc' \in {"returned", "write_error"}]_vars

\* C18 witness: a lone pipe line, for which process_table returns the index it was
\* started at, was passed, the text line after it was emitted and convert returned.
C18_Witness ==
    /\ pc = "returned"
    /\ lines = <<L_row, L_text>>
    /\ i = 2
    /\ Emitted = <<Paragraph(L_text)>>

\* the positions of the headings in the document
HeadingPositions == {k \in 1..Len(doc) : doc[k].kind = "Heading"}

\* the rendered number of a heading of the headings specification, whose titles are
\* all the one letter "A": its text without the title
NumberOf(h) == SubSeq(h.text, 1, Len(h.text) - 1)

\* C19 as claimed: with auto-numbering on in decimal mode, no two headings of the
\* document carry the same rendered number.
C19_AsClaimed ==
    (settings.auto_numbering_headings /\ settings.numbering_format = "decimal")
       => \A a, b \in HeadingPositions :
             a # b => NumberOf(doc[a]) # NumberOf(doc[b])

====
